---- MODULE Spec2Model ----
(***************************************************************************)
(* gwaylib/errors: the annotated error record (errImpl over ErrData, a     *)
(* []interface{} whose element 0 is the code and whose other elements are  *)
(* the trail entries), with New, As, Wrap, the method As, Parse,           *)
(* ParseError, Equal, Code and Error.                                      *)
(*                                                                         *)
(* A Go slice is a header (backing array, len) over a backing array of cap *)
(* cells; append writes the cell after len in place when len < cap and     *)
(* copies to a larger array otherwise.  The heap keeps both, so that two   *)
(* records may share one backing array, as they do in the program.         *)
(*                                                                         *)
(* A text (a Go string) is a sequence of tokens, so that rendering and     *)
(* parsing are functions that can disagree.                                *)
(***************************************************************************)
EXTENDS Integers, Sequences, FiniteSets, TLC

\* ------------------------------------------------------------------ bounds
MaxRecs == 4      \* records ever allocated in one run
NProcs == 2       \* goroutines annotating the same base record concurrently

\* ------------------------------------------------------------------ texts
\* One token of a text.  t: "p" punctuation, "str" a JSON string literal
\* whose content is the text s, "num" a numeric literal, "raw" other
\* characters, "sp" a space, "panic" the marker of a call that panicked.
Tok(t, c, n, s) == [t |-> t, c |-> c, n |-> n, s |-> s]
P(c) == Tok("p", c, 0, <<>>)
Raw(c) == Tok("raw", c, 0, <<>>)
NumTok(n) == Tok("num", "", n, <<>>)
StrTok(s) == Tok("str", "", 0, s)
Sp == Tok("sp", "", 0, <<>>)
NullTok == Tok("raw", "null", 0, <<>>)

Txt(c) == <<Raw(c)>>

\* What a call that panics yields in place of its result.
PanicCode == <<Tok("panic", "", 0, <<>>)>>

\* ------------------------------------------------------------------ values
\* One interface{} value.  k: "str" (s is its text), "num" (n), "arr" (a is
\* its elements: an ErrData or a decoded []interface{}), "nil" (the nil
\* interface, also the zero value of an unwritten cell), "chan" (a value
\* encoding/json cannot encode: a channel, a func, NaN).
Val(k, s, n, a) == [k |-> k, s |-> s, n |-> n, a |-> a]
Str(s) == Val("str", s, 0, <<>>)
Num(n) == Val("num", <<>>, n, <<>>)
Arr(a) == Val("arr", <<>>, 0, a)
NilVal == Val("nil", <<>>, 0, <<>>)
ChanVal == Val("chan", <<>>, 0, <<>>)

\* ------------------------------------------------------------------ json.Marshal
\* Strings are coerced to valid UTF-8: an invalid byte becomes U+FFFD.
RECURSIVE CoerceUTF8(_)
CoerceUTF8(s) ==
    [i \in 1..Len(s) |->
        IF s[i].t = "raw" /\ s[i].c = "\\xff" THEN Raw("\\ufffd")
        ELSE IF s[i].t = "str" THEN StrTok(CoerceUTF8(s[i].s))
        ELSE s[i]]

RECURSIVE Encodable(_)
Encodable(v) ==
    CASE v.k = "chan" -> FALSE
      [] v.k = "arr" -> \A i \in 1..Len(v.a) : Encodable(v.a[i])
      [] OTHER -> TRUE

RECURSIVE Encode(_)
RECURSIVE EncodeElems(_, _)
EncodeElems(a, i) ==
    IF i > Len(a) THEN <<>>
    ELSE (IF i > 1 THEN <<P(",")>> ELSE <<>>) \o Encode(a[i]) \o EncodeElems(a, i + 1)
Encode(v) ==
    CASE v.k = "str" -> <<StrTok(CoerceUTF8(v.s))>>
      [] v.k = "num" -> <<NumTok(v.n)>>
      [] v.k = "nil" -> <<NullTok>>
      [] v.k = "arr" -> <<P("[")>> \o EncodeElems(v.a, 1) \o <<P("]")>>
      [] OTHER -> <<>>

\* ------------------------------------------------------------------ fmt %+v
RECURSIVE Dump(_)
RECURSIVE DumpElems(_, _)
DumpElems(a, i) ==
    IF i > Len(a) THEN <<>>
    ELSE (IF i > 1 THEN <<Sp>> ELSE <<>>) \o Dump(a[i]) \o DumpElems(a, i + 1)
Dump(v) ==
    CASE v.k = "str" -> v.s
      [] v.k = "num" -> <<NumTok(v.n)>>
      [] v.k = "nil" -> <<Raw("<nil>")>>
      [] v.k = "chan" -> <<Raw("0xc000012345")>>
      [] OTHER -> <<P("[")>> \o DumpElems(v.a, 1) \o <<P("]")>>

\* ------------------------------------------------------------------ json.Unmarshal
RECURSIVE SkipSp(_, _)
SkipSp(toks, i) ==
    IF i <= Len(toks) /\ toks[i].t = "sp" THEN SkipSp(toks, i + 1) ELSE i

Fail == [ok |-> FALSE, v |-> NilVal, j |-> 0]

RECURSIVE DecodeValue(_, _)
RECURSIVE DecodeElems(_, _, _)
DecodeElems(toks, i, acc) ==
    LET r == DecodeValue(toks, i)
        j == SkipSp(toks, r.j)
    IN  IF ~r.ok \/ j > Len(toks) THEN Fail
        ELSE IF toks[j] = P(",") THEN DecodeElems(toks, j + 1, Append(acc, r.v))
        ELSE IF toks[j] = P("]") THEN [ok |-> TRUE, v |-> Arr(Append(acc, r.v)), j |-> j + 1]
        ELSE Fail
DecodeValue(toks, i0) ==
    LET i == SkipSp(toks, i0)
    IN  IF i > Len(toks) THEN Fail
        ELSE IF toks[i].t = "str" THEN [ok |-> TRUE, v |-> Str(toks[i].s), j |-> i + 1]
        ELSE IF toks[i].t = "num" THEN [ok |-> TRUE, v |-> Num(toks[i].n), j |-> i + 1]
        ELSE IF toks[i] = NullTok THEN [ok |-> TRUE, v |-> NilVal, j |-> i + 1]
        ELSE IF toks[i] = P("[")
             THEN LET k == SkipSp(toks, i + 1)
                  IN  IF k <= Len(toks) /\ toks[k] = P("]")
                      THEN [ok |-> TRUE, v |-> Arr(<<>>), j |-> k + 1]
                      ELSE DecodeElems(toks, i + 1, <<>>)
        ELSE Fail

\* json.Unmarshal([]byte(src), &data): the whole text must be one JSON value.
Unmarshal(src) ==
    LET r == DecodeValue(src, 1)
    IN  IF r.ok /\ SkipSp(src, r.j) > Len(src) THEN r ELSE Fail

\* ------------------------------------------------------------------ the heap
\* arrs: the backing arrays, each [cap, cells] with Len(cells) = cap;
\* recs: the *errImpl instances handed out, each the slice header [arr, len]
\* of its data (every slice of the program starts at cell 1 of its array)
\* and, as history, pure: made by New and annotations alone.
VARIABLES heap, build, last, pcs, writes

vars == <<heap, build, last, pcs, writes>>

EmptyHeap == [arrs |-> <<>>, recs |-> <<>>]

Zeros(n) == [i \in 1..n |-> NilVal]

AllocArr(h, cap, cells) ==
    [h EXCEPT !.arrs = Append(@, [cap |-> cap, cells |-> cells \o Zeros(cap - Len(cells))])]

ViewOf(h, sl) == SubSeq(h.arrs[sl.arr].cells, 1, sl.len)

CapOf(h, sl) == h.arrs[sl.arr].cap

\* The capacity append gives a slice that has to grow (runtime growslice,
\* small slices of 16-byte elements: doubling).
GrowCap(old, need) == IF need > 2 * old THEN need ELSE 2 * old

\* append(sl, v): in place when the array has a free cell after len, else
\* a copy in a new array.
\* append with its operands swapped, append(as, e.data...): the new element first.
AppendOpPrepend(h, sl, v) ==
    [h |-> AllocArr(h, GrowCap(CapOf(h, sl), sl.len + 1), <<v>> \o ViewOf(h, sl)),
     sl |-> [arr |-> Len(h.arrs) + 1, len |-> sl.len + 1]]

AppendOp(h, sl, v) ==
    IF sl.len < CapOf(h, sl)
    THEN [h |-> [h EXCEPT !.arrs[sl.arr].cells[sl.len + 1] = v],
          sl |-> [arr |-> sl.arr, len |-> sl.len + 1]]
    ELSE [h |-> AllocArr(h, GrowCap(CapOf(h, sl), sl.len + 1), Append(ViewOf(h, sl), v)),
          sl |-> [arr |-> Len(h.arrs) + 1, len |-> sl.len + 1]]

\* A slice literal ErrData{...}: a new array exactly as long as the literal.
Literal(h, elems) ==
    [h |-> AllocArr(h, Len(elems), elems),
     sl |-> [arr |-> Len(h.arrs) + 1, len |-> Len(elems)]]

\* &errImpl{sl}
AllocRec(h, sl, pure) ==
    [h EXCEPT !.recs = Append(@, [arr |-> sl.arr, len |-> sl.len, pure |-> pure])]

\* ------------------------------------------------------------------ error values
\* A Go error interface value: nil, a *errImpl (id: its index in recs), a
\* foreign error (id: its index in Foreign), a non-nil interface holding a
\* nil *errImpl, or the marker of a call that panicked.
NilErr == [k |-> "nil", id |-> 0]
RecErr(i) == [k |-> "rec", id |-> i]
ForeignErr(f) == [k |-> "foreign", id |-> f]
TypedNil == [k |-> "typednil", id |-> 0]
Panicked == [k |-> "panic", id |-> 0]

\* Foreign errors the callers hold: errors.New("X"), errors.New(""),
\* and fmt.Errorf("ctx: %w", the first).
Foreign ==
    << [text |-> Txt("X"), unwrap |-> NilErr],
       [text |-> <<>>, unwrap |-> NilErr],
       [text |-> <<Raw("ctx: "), Raw("X")>>, unwrap |-> ForeignErr(1)] >>

\* ------------------------------------------------------------------ caller
\* A frame is the descriptor runtime.Caller reports for it, file:line#func
\* with the line of the call it is executing; a stack is innermost first.
FrCaller == "errors.go:172#errors.caller"

caller(depth, stack) ==
    IF depth + 1 <= Len(stack) THEN stack[depth + 1] ELSE ":0#"

\* ------------------------------------------------------------------ New
\* append(ErrData{code}, ErrData{caller(2)}), called from the frames S.
\* The literal ErrData{code} is full, so append copies it; the literal's own
\* array is garbage at once and is left out of the heap.
\* New without the creation-time entry: &errImpl{ErrData{code}}.
NewDataNoSite(h, code, S) ==
    [h |-> AllocArr(h, 1, <<Str(code)>>), st |-> "ok", id |-> 0,
     sl |-> [arr |-> Len(h.arrs) + 1, len |-> 1]]

NewData(h, code, S) ==
    LET site == caller(2, <<FrCaller, "errors.go:108#errors.New">> \o S)
        lit == Literal(EmptyHeap, <<Str(code)>>)
        ap == AppendOp(lit.h, lit.sl, Arr(<<Str(Txt(site))>>))
    IN  [h |-> AllocArr(h, CapOf(ap.h, ap.sl), ViewOf(ap.h, ap.sl)),
         st |-> "ok", id |-> 0,
         sl |-> [arr |-> Len(h.arrs) + 1, len |-> ap.sl.len]]

\* ------------------------------------------------------------------ parse
\* The capacity of the slice json.Unmarshal leaves in data after n elements:
\* "grow" builds grow it as append does, "step" builds by half, from four.
RECURSIVE DecodeCapFrom(_, _, _)
DecodeCapFrom(b, cap, n) ==
    IF n <= cap THEN cap
    ELSE IF b = "grow" THEN DecodeCapFrom(b, GrowCap(cap, cap + 1), n)
    ELSE DecodeCapFrom(b, IF cap + cap \div 2 < 4 THEN 4 ELSE cap + cap \div 2, n)

DecodeCap(b, n) == DecodeCapFrom(b, 0, n)

\* The *errImpl a step hands on, as [h, st, sl, id].  st: "nil" (a nil
\* interface), "typednil" (the nil *errImpl that parse returns for an empty
\* text, in an interface), "ok" (sl is its data); id: the instance when it
\* is one at hand, 0 for one still to be allocated.
NilImpl(h, st) == [h |-> h, st |-> st, sl |-> [arr |-> 0, len |-> 0], id |-> 0]

\* parse testing for the marker of the object encoding of the earlier
\* versions, src[:1] != "{": every text of this encoding becomes a code.
parseObjectMarker(h, src, S, b) ==
    IF Len(src) = 0 THEN NilImpl(h, "nil")
    ELSE NewData(h, src, <<"errors.go:159#errors.parse">> \o S)

\* &errImpl{data}, data as json.Unmarshal left it.
Decoded(h, a, b) ==
    [h |-> AllocArr(h, DecodeCap(b, Len(a)), a), st |-> "ok", id |-> 0,
     sl |-> [arr |-> Len(h.arrs) + 1, len |-> Len(a)]]

\* parse after json.Unmarshal has returned r.
parseDecoded(h, src, S, b, r) ==
    IF ~r.ok THEN NewData(h, src, <<"errors.go:164#errors.parse">> \o S)
    ELSE Decoded(h, r.v.a, b)

parse(h, src, S, b) ==
    IF Len(src) = 0 THEN NilImpl(h, "nil")
    ELSE IF src[1] # P("[")
    THEN NewData(h, src, <<"errors.go:159#errors.parse">> \o S)
    ELSE parseDecoded(h, src, S, b, Unmarshal(src))

\* ------------------------------------------------------------------ ParseError
\* return parse(src.Error()): the nil *errImpl becomes a non-nil interface.
AsInterface(r) == IF r.st = "nil" THEN [r EXCEPT !.st = "typednil"] ELSE r

\* ParseError returning a copy of the instance it is handed: &errImpl{e.data}.
ParseErrorDataCopy(h, src, S, b) ==
    IF src.k = "nil" THEN NilImpl(h, "nil")
    ELSE IF src.k = "typednil" THEN NilImpl(h, "typednil")
    ELSE IF src.k = "rec"
    THEN [h |-> h, st |-> "ok", id |-> 0,
          sl |-> [arr |-> h.recs[src.id].arr, len |-> h.recs[src.id].len]]
    ELSE AsInterface(parse(h, Foreign[src.id].text, <<"errors.go:128#errors.ParseError">> \o S, b))

ParseErrorData(h, src, S, b) ==
    IF src.k = "nil" THEN NilImpl(h, "nil")
    ELSE IF src.k = "typednil" THEN NilImpl(h, "typednil")
    ELSE IF src.k = "rec"
    THEN [h |-> h, st |-> "ok", id |-> src.id,
          sl |-> [arr |-> h.recs[src.id].arr, len |-> h.recs[src.id].len]]
    ELSE AsInterface(parse(h, Foreign[src.id].text, <<"errors.go:128#errors.ParseError">> \o S, b))

\* The value a public entry point returns for d: nil, the nil *errImpl, the
\* instance at hand, or a new &errImpl{d.sl}.
Returned(d, pure) ==
    IF d.st = "nil" THEN [h |-> d.h, res |-> NilErr]
    ELSE IF d.st = "typednil" THEN [h |-> d.h, res |-> TypedNil]
    ELSE IF d.id # 0 THEN [h |-> d.h, res |-> RecErr(d.id)]
    ELSE [h |-> AllocRec(d.h, d.sl, pure), res |-> RecErr(Len(d.h.recs) + 1)]

New(h, code, S) == Returned(NewData(h, code, S), TRUE)

Parse(h, src, S, b) ==
    IF Len(src) = 0 THEN [h |-> h, res |-> NilErr]
    ELSE Returned(parse(h, src, <<"errors.go:116#errors.Parse">> \o S, b), FALSE)

ParseError(h, src, S, b) == Returned(ParseErrorData(h, src, S, b), FALSE)

\* ------------------------------------------------------------------ As, Wrap
\* as := ErrData{caller(2)}; as = append(as, reason...)
Entry(site, reason) == Arr(<<Str(Txt(site))>> \o reason)

\* Made by New and annotations alone: an annotation of such an instance.
PureOf(h, id) == id # 0 /\ h.recs[id].pure

\* append(e.data, as), to be returned in a new &errImpl.
Appended(e, as) == [st |-> "ok", id |-> 0] @@ AppendOp(e.h, e.sl, as)

\* As from its line 140 on, e the *errImpl of line 137: e.data panics when
\* e is the nil pointer (a foreign error of empty text).
AsAppend(h, e, as) ==
    IF e.st # "ok" THEN [h |-> h, res |-> Panicked]
    ELSE Returned(Appended(e, as), PureOf(h, e.id))

\* As from its line 137 on, err not nil.
AsBody(h, err, reason, S, b) ==
    AsAppend(h, ParseErrorData(h, err, <<"errors.go:137#errors.As">> \o S, b),
             Entry(caller(2, <<FrCaller, "errors.go:140#errors.As">> \o S), reason))

\* As storing the longer data in the instance it was handed and returning
\* that instance: e.data = append(e.data, as); return e.
AsInPlace(h, err, reason, S, b) ==
    IF err.k = "nil" THEN [h |-> h, res |-> NilErr]
    ELSE IF err.k # "rec" THEN AsBody(h, err, reason, S, b)
    ELSE LET site == caller(2, <<FrCaller, "errors.go:140#errors.As">> \o S)
             ap == AppendOp(h, h.recs[err.id], Entry(site, reason))
         IN  [h |-> [ap.h EXCEPT !.recs[err.id].arr = ap.sl.arr,
                                 !.recs[err.id].len = ap.sl.len],
              res |-> err]

\* As without its nil check: ParseError(nil).(*errImpl) panics.
AsNoNilCheck(h, err, reason, S, b) ==
    IF err.k = "nil" THEN [h |-> h, res |-> Panicked]
    ELSE AsBody(h, err, reason, S, b)

As(h, err, reason, S, b) ==
    IF err.k = "nil" THEN [h |-> h, res |-> NilErr]
    ELSE AsBody(h, err, reason, S, b)

Wrap(h, err, arg, S, b) == As(h, err, arg, <<"errors.go:151#errors.Wrap">> \o S, b)

\* The method As storing the longer data in its receiver and returning it:
\* e.data = append(e.data, as); return e.
MethodAsInPlace(h, i, reason, S) ==
    LET ap == AppendOp(h, h.recs[i],
                       Entry(caller(2, <<FrCaller, "errors.go:218#errors.(*errImpl).As">> \o S), reason))
    IN  [h |-> [ap.h EXCEPT !.recs[i].arr = ap.sl.arr, !.recs[i].len = ap.sl.len],
         res |-> RecErr(i)]

\* (e *errImpl) As(reason...), e the instance recs[i]
MethodAs(h, i, reason, S) ==
    Returned(Appended([h |-> h, sl |-> h.recs[i]],
                      Entry(caller(2, <<FrCaller, "errors.go:218#errors.(*errImpl).As">> \o S), reason)),
             PureOf(h, i))

\* ------------------------------------------------------------------ Code, Error
\* e.data[0].(string): panics on an empty data and on a non-string element.
CodeOfData(h, sl) ==
    IF sl.len >= 1 /\ ViewOf(h, sl)[1].k = "str" THEN ViewOf(h, sl)[1].s ELSE PanicCode

Code(h, i) == CodeOfData(h, h.recs[i])

\* json.Marshal(e.data), and the %+v dump when it fails.
ErrorOfData(h, sl) ==
    IF Encodable(Arr(ViewOf(h, sl))) THEN Encode(Arr(ViewOf(h, sl)))
    ELSE Dump(Arr(ViewOf(h, sl)))

Error(h, i) == ErrorOfData(h, h.recs[i])

\* The trail of a record: its data after the code.
Trail(h, i) == SubSeq(ViewOf(h, h.recs[i]), 2, h.recs[i].len)

\* ------------------------------------------------------------------ Equal
\* errors.Is of the standard library: the chain of err1 holds err2.
RECURSIVE ErrorsIs(_, _)
ErrorsIs(e1, e2) ==
    IF e1 = e2 THEN TRUE
    ELSE IF e1.k = "foreign" /\ Foreign[e1.id].unwrap.k # "nil"
    THEN ErrorsIs(Foreign[e1.id].unwrap, e2)
    ELSE FALSE

\* eImpl.Code() of line 97, p the ParseError of line 96.
CodeOfParsed(p) == IF p.st = "ok" THEN CodeOfData(p.h, p.sl) ELSE PanicCode

ParsedCode(h, err, S, b) ==
    CodeOfParsed(ParseErrorData(h, err, <<"errors.go:96#errors.equal">> \o S, b))

CodesEqual(c1, c2) ==
    IF c1 = PanicCode \/ c2 = PanicCode THEN "panic"
    ELSE IF c1 = c2 THEN "true" ELSE "false"

\* equal testing only its first operand for nil: if err1 == nil { return false }.
equalNilFirst(h, err1, err2, S, b) ==
    IF err1 = err2 THEN "true"
    ELSE IF err1.k = "nil" THEN "false"
    ELSE IF ErrorsIs(err1, err2) THEN "true"
    ELSE CodesEqual(ParsedCode(h, err1, S, b), ParsedCode(h, err2, S, b))

\* "true", "false", or "panic" when a Code() call panics.
equal(h, err1, err2, S, b) ==
    IF err1 = err2 THEN "true"
    ELSE IF err1.k = "nil" \/ err2.k = "nil" THEN "false"
    ELSE IF ErrorsIs(err1, err2) THEN "true"
    ELSE CodesEqual(ParsedCode(h, err1, S, b), ParsedCode(h, err2, S, b))

Equal(h, err1, err2, S, b) == equal(h, err1, err2, <<"errors.go:76#errors.Equal">> \o S, b)

Is(h, err1, err2, S, b) == equal(h, err1, err2, <<"errors.go:81#errors.Is">> \o S, b)

MethodEqual(h, i, l, S, b) ==
    equal(h, RecErr(i), l, <<"errors.go:230#errors.(*errImpl).Equal">> \o S, b)

\* ------------------------------------------------------------------ inputs
Builds == {"grow", "step"}

UserFrame == "main.go:7#main.fn"

BadCode == Txt("\\xff")

Codes == {Txt("X"), BadCode}

Reason == <<Str(Txt("reason"))>>

\* The reason arguments As, Wrap and the method As are called with.
AsArgs == {<<>>}

WrapArgs == {<<Num(123), ChanVal>>}

MethodArgs == {Reason}

\* Texts handed to Parse besides the Error() of the records at hand:
\* "", "boom", "[]", ["X"] and the unterminated ["X".
ParseTexts ==
    { <<>>,
      Txt("boom"),
      <<P("["), P("]")>>,
      <<P("["), StrTok(Txt("X")), P("]")>>,
      <<P("["), StrTok(Txt("X"))>> }

Recs == 1..Len(heap.recs)

\* The error values the callers pass: nil, every record at hand, and the
\* foreign errors (Wrap is handed nil and records).
AllErrs == {NilErr} \cup {RecErr(i) : i \in Recs} \cup {ForeignErr(f) : f \in 1..Len(Foreign)}

ErrInputs == {NilErr} \cup {RecErr(i) : i \in Recs} \cup {ForeignErr(1), ForeignErr(2)}

WrapInputs == {NilErr} \cup {RecErr(i) : i \in Recs}

\* ------------------------------------------------------------------ the program
\* last: the call that made the current state.
Call(op, base, other, arg, text, res, out) ==
    [op |-> op, base |-> base, other |-> other, arg |-> arg, text |-> text,
     res |-> res, out |-> out]

\* pcs: the goroutines of the concurrent specification, each annotating the
\* record base; writes: the cells of backing arrays they have written.
NoSlice == [arr |-> 0, len |-> 0]

Idle ==
    [p \in 1..NProcs |-> [pc |-> "idle", base |-> 0, arg |-> <<>>, sl |-> NoSlice, res |-> 0]]

\* var ErrNoData = New("data not found"), at package initialisation.
Init ==
    /\ build \in Builds
    /\ LET r == New(EmptyHeap, Txt("data not found"), <<"errors.go:54#errors.init">>)
       IN  /\ heap = r.h
           /\ last = Call("init", NilErr, NilErr, <<>>, Txt("data not found"), r.res, "")
    /\ pcs = Idle
    /\ writes = {}

\* The bound on a run: a call that makes a record needs room for it, and a
\* call that leaves the heap as it is (nil in, nil out; an instance handed
\* back; a panic) is explored while room for two records is left.
Room(h) ==
    IF h = heap THEN Len(heap.recs) + 1 < MaxRecs ELSE Len(heap.recs) < MaxRecs

\* The call op has returned r: the heap it leaves and the record of the call.
Return(op, r, base, arg, text) ==
    /\ Room(r.h)
    /\ heap' = r.h
    /\ last' = Call(op, base, NilErr, arg, text, r.res, "")

DoNew ==
    \E c \in Codes :
        /\ Len(heap.recs) < MaxRecs
        /\ Return("New", New(heap, c, <<UserFrame>>), NilErr, <<>>, c)
        /\ UNCHANGED <<build, pcs, writes>>

DoAs ==
    \E e \in ErrInputs, a \in AsArgs :
        /\ Len(heap.recs) < MaxRecs
        /\ Return("As", As(heap, e, a, <<UserFrame>>, build), e, a, <<>>)
        /\ UNCHANGED <<build, pcs, writes>>

DoWrap ==
    \E e \in WrapInputs, a \in WrapArgs :
        /\ Len(heap.recs) < MaxRecs
        /\ Return("Wrap", Wrap(heap, e, a, <<UserFrame>>, build), e, a, <<>>)
        /\ UNCHANGED <<build, pcs, writes>>

DoMethodAs ==
    \E i \in Recs, a \in MethodArgs :
        /\ Len(heap.recs) < MaxRecs
        /\ Return("MethodAs", MethodAs(heap, i, a, <<UserFrame>>), RecErr(i), a, <<>>)
        /\ UNCHANGED <<build, pcs, writes>>

DoParse ==
    \E t \in ParseTexts \cup {Error(heap, i) : i \in Recs} :
        /\ Len(heap.recs) < MaxRecs
        /\ Return("Parse", Parse(heap, t, <<UserFrame>>, build), NilErr, <<>>, t)
        /\ UNCHANGED <<build, pcs, writes>>

DoParseError ==
    \E e \in ErrInputs :
        /\ Len(heap.recs) < MaxRecs
        /\ Return("ParseError", ParseError(heap, e, <<UserFrame>>, build), e, <<>>, <<>>)
        /\ UNCHANGED <<build, pcs, writes>>

Next ==
    \/ DoNew
    \/ DoAs
    \/ DoWrap
    \/ DoMethodAs
    \/ DoParse
    \/ DoParseError

Spec == Init /\ [][Next]_vars

\* ------------------------------------------------------------------ concurrent annotation
\* NProcs goroutines, started together and not synchronised, each call
\* As(base, reason...) on the same record.  One call is three steps: the call
\* (the arguments are bound and as is built), the append to e.data, and the
\* return of the new &errImpl.  A cell is written in one step: the two
\* writers of a cell store an interface of the same dynamic type, so a torn
\* write leaves one of the two values, as the two orders of the steps do.
ConcArgs(p) == {<<>>, <<Num(p)>>}

\* The records the goroutines are handed: ErrNoData, an annotation of it, an
\* annotation of that, and Parse of ["X"].
ConcBases(b) ==
    LET h0 == New(EmptyHeap, Txt("data not found"), <<"errors.go:54#errors.init">>)
        h1 == MethodAs(h0.h, 1, Reason, <<UserFrame>>)
        h2 == MethodAs(h1.h, 2, <<>>, <<UserFrame>>)
        h3 == Parse(h0.h, <<P("["), StrTok(Txt("X")), P("]")>>, <<UserFrame>>, b)
    IN  { [h |-> h0.h, base |-> 1], [h |-> h1.h, base |-> 2],
          [h |-> h2.h, base |-> 3], [h |-> h3.h, base |-> 2] }

ConcInit ==
    /\ build \in Builds
    /\ \E c \in ConcBases(build) :
        /\ heap = c.h
        /\ pcs = [p \in 1..NProcs |-> [Idle[p] EXCEPT !.base = c.base]]
        /\ last = Call("spawn", RecErr(c.base), NilErr, <<>>, <<>>, NilErr, "")
    /\ writes = {}

ConcCall(p) ==
    /\ pcs[p].pc = "idle"
    /\ \E a \in ConcArgs(p) :
        LET e == ParseErrorData(heap, RecErr(pcs[p].base), <<"errors.go:137#errors.As">>, build)
        IN  pcs' = [pcs EXCEPT ![p].pc = "called", ![p].arg = a, ![p].sl = e.sl]
    /\ UNCHANGED <<heap, build, last, writes>>

ConcAppend(p) ==
    /\ pcs[p].pc = "called"
    /\ LET site == caller(2, <<FrCaller, "errors.go:140#errors.As", UserFrame>>)
           ap == AppendOp(heap, pcs[p].sl, Entry(site, pcs[p].arg))
       IN  /\ heap' = ap.h
           /\ pcs' = [pcs EXCEPT ![p].pc = "appended", ![p].sl = ap.sl]
           /\ writes' = writes \cup {[p |-> p, arr |-> ap.sl.arr, idx |-> ap.sl.len]}
    /\ UNCHANGED <<build, last>>

ConcReturn(p) ==
    /\ pcs[p].pc = "appended"
    /\ LET r == Returned([h |-> heap, st |-> "ok", sl |-> pcs[p].sl, id |-> 0],
                             PureOf(heap, pcs[p].base))
       IN  /\ heap' = r.h
           /\ pcs' = [pcs EXCEPT ![p].pc = "done", ![p].res = r.res.id]
           /\ last' = Call("As", RecErr(pcs[p].base), NilErr, pcs[p].arg, <<>>, r.res, "")
    /\ UNCHANGED <<build, writes>>

ConcNext ==
    \/ \E p \in 1..NProcs : ConcCall(p)
    \/ \E p \in 1..NProcs : ConcAppend(p)
    \/ \E p \in 1..NProcs : ConcReturn(p)

ConcSpec == ConcInit /\ [][ConcNext]_vars

\* ------------------------------------------------------------------ properties
AnnotOps == {"As", "Wrap", "MethodAs"}

\* The call c annotated an instance and returned one.
Annotated(c) == c.op \in AnnotOps /\ c.base.k = "rec" /\ c.res.k = "rec"

View(h, i) == ViewOf(h, h.recs[i])

\* C1 (non-mutation): a call of As, Wrap or the method As on the instance r1
\* returns another, new instance and leaves r1's slice header, data (code
\* and trail, length and content) and Code() as they were before the call.
C1_NonMutation ==
    [][ (last'.op \in AnnotOps /\ last'.base.k = "rec") =>
            LET r1 == last'.base.id
            IN  /\ last'.res.k = "rec"
                /\ last'.res.id # r1
                /\ last'.res.id \notin Recs
                /\ heap'.recs[r1] = heap.recs[r1]
                /\ View(heap', r1) = View(heap, r1)
                /\ Trail(heap', r1) = Trail(heap, r1)
                /\ Code(heap', r1) = Code(heap, r1) ]_vars

\* An annotation that appended in place: the result shares r1's backing array.
C1_Witness ==
    /\ Annotated(last)
    /\ heap.recs[last.res.id].arr = heap.recs[last.base.id].arr
    /\ heap.recs[last.res.id].len = heap.recs[last.base.id].len + 1

\* C2 (independent annotated copies): an annotation of r returns a record
\* whose data is r's data followed by exactly its own entry, and no call
\* changes the trail of a record that was returned before it.
C2_IndependentCopies ==
    [][ /\ Annotated(last') =>
            LET v == View(heap', last'.res.id)
            IN  /\ Len(v) = heap.recs[last'.base.id].len + 1
                /\ SubSeq(v, 1, Len(v) - 1) = View(heap, last'.base.id)
                /\ v[Len(v)].k = "arr"
                /\ Tail(v[Len(v)].a) = last'.arg
        /\ \A i \in Recs : Trail(heap', i) = Trail(heap, i) ]_vars

\* C3 (race freedom of concurrent annotation): no goroutine writes a cell of
\* the base record's backing array, no two goroutines write the same cell,
\* and the results are distinct records of trail length base+1 and of the
\* base's code.
C3_RaceFree ==
    LET base == pcs[1].base
    IN  /\ \A w \in writes : w.arr # heap.recs[base].arr
        /\ \A w1 \in writes : \A w2 \in writes :
               w1.p # w2.p => <<w1.arr, w1.idx>> # <<w2.arr, w2.idx>>
        /\ \A p \in 1..NProcs : \A q \in 1..NProcs :
               (pcs[p].pc = "done" /\ pcs[q].pc = "done") =>
                   /\ (p # q => pcs[p].res # pcs[q].res)
                   /\ heap.recs[pcs[p].res].len = heap.recs[base].len + 1
                   /\ Code(heap, pcs[p].res) = Code(heap, base)

C5_TrailGrowth ==
    [][ Annotated(last') =>
            LET t == Trail(heap', last'.res.id)
                t0 == Trail(heap, last'.base.id)
            IN  /\ Len(t) = Len(t0) + 1
                /\ SubSeq(t, 1, Len(t0)) = t0
                /\ t[Len(t)].k = "arr"
                /\ Len(t[Len(t)].a) = Len(last'.arg) + 1
                /\ t[Len(t)].a[1].k = "str"
                /\ Tail(t[Len(t)].a) = last'.arg ]_vars

\* C6 (nil propagation): As(nil, ...) and Wrap(nil, ...) return nil and
\* leave the heap as it was: no record is made and no call site recorded.
C6_NilPropagation ==
    [][ (last'.op \in {"As", "Wrap"} /\ last'.base = NilErr) =>
            (last'.res = NilErr /\ heap' = heap) ]_vars

\* Wrap(nil, 123, ch) has returned, with records at hand.
C6_Witness ==
    /\ last.op = "Wrap"
    /\ last.base = NilErr
    /\ last.arg # <<>>
    /\ last.res = NilErr
    /\ Len(heap.recs) >= 2

\* C7 (code-based equality): for any two records a and b, a.Equal(b) and
\* Equal(a, b) are true exactly when a.Code() == b.Code().
C7_CodeEquality ==
    \A i \in Recs : \A j \in Recs :
        LET want == IF Code(heap, i) = Code(heap, j) THEN "true" ELSE "false"
        IN  /\ MethodEqual(heap, i, RecErr(j), <<UserFrame>>, build) = want
            /\ Equal(heap, RecErr(i), RecErr(j), <<UserFrame>>, build) = want

\* Parse(r.Error()) is a record of r's code.
RoundTrip(i) ==
    LET r == Parse(heap, Error(heap, i), <<UserFrame>>, build)
    IN  r.res.k = "rec" /\ Code(r.h, r.res.id) = Code(heap, i)

Utf8Valid(s) == CoerceUTF8(s) = s

InputText(c) ==
    IF c.op = "Parse" THEN c.text
    ELSE IF c.op = "ParseError" /\ c.base.k = "foreign" THEN Foreign[c.base.id].text
    ELSE <<>>

\* The text decodes to a code string followed by entries.
DecodesToRecord(src) ==
    /\ src[1] = P("[")
    /\ Unmarshal(src).ok
    /\ Len(Unmarshal(src).v.a) >= 1
    /\ Unmarshal(src).v.a[1].k = "str"
    /\ \A n \in 2..Len(Unmarshal(src).v.a) : Unmarshal(src).v.a[n].k = "arr"

\* C9 (Parse never fails): for a non-empty text Parse and ParseError return
\* a record on which Code(), Error(), As and Equal complete without a panic,
\* and a text that does not decode to {code, trail} gives a fresh record
\* whose code is the whole text.
C9_ParseNeverFails ==
    Len(InputText(last)) > 0 =>
        /\ last.res.k = "rec"
        /\ Code(heap, last.res.id) # PanicCode
        /\ Len(Error(heap, last.res.id)) > 0
        /\ As(heap, last.res, Reason, <<UserFrame>>, build).res.k = "rec"
        /\ Equal(heap, last.res, RecErr(1), <<UserFrame>>, build) # "panic"
        /\ MethodEqual(heap, last.res.id, RecErr(1), <<UserFrame>>, build) # "panic"
        /\ ~DecodesToRecord(InputText(last)) =>
               /\ Code(heap, last.res.id) = InputText(last)
               /\ heap.recs[last.res.id].len = 2

\* C10 (trail-length invariant): every record has a code and a trail of at
\* least one entry.
C10_TrailLength ==
    \A i \in Recs : Code(heap, i) # PanicCode /\ Len(Trail(heap, i)) >= 1

\* C11 (Parse fallback): Parse("") returns nil and makes nothing; Parse of a
\* non-empty text that does not begin with the marker "[" returns a new
\* record whose Code() is the text and whose trail is one entry, the
\* creation-time one (a call-site descriptor and nothing else).
C11_ParseFallback ==
    [][ last'.op = "Parse" =>
            /\ Len(last'.text) = 0 => (last'.res = NilErr /\ heap' = heap)
            /\ (Len(last'.text) > 0 /\ last'.text[1] # P("[")) =>
                   /\ last'.res.k = "rec"
                   /\ last'.res.id \notin Recs
                   /\ Code(heap', last'.res.id) = last'.text
                   /\ Len(Trail(heap', last'.res.id)) = 1
                   /\ Trail(heap', last'.res.id)[1].k = "arr"
                   /\ Len(Trail(heap', last'.res.id)[1].a) = 1
                   /\ \A i \in Recs : View(heap', i) = View(heap, i) ]_vars

\* Parse("boom") has returned a record of code "boom".
C11_Witness ==
    /\ last.op = "Parse"
    /\ last.text = Txt("boom")
    /\ last.res.k = "rec"
    /\ Code(heap, last.res.id) = Txt("boom")
    /\ heap.recs[last.res.id].len = 2

\* A foreign error that wraps nothing and whose text is not structured text.
PlainUnstructured(e) ==
    /\ e.k = "foreign"
    /\ Foreign[e.id].unwrap = NilErr
    /\ \/ Len(Foreign[e.id].text) = 0
       \/ Foreign[e.id].text[1] # P("[")
       \/ ~Unmarshal(Foreign[e.id].text).ok

\* New(t).Equal(e)
NewEqual(h, t, e, b) ==
    LET n == New(h, t, <<UserFrame>>)
    IN  MethodEqual(n.h, n.res.id, e, <<UserFrame>>, b)

\* New(t).Equal(As(f, "reason"))
NewEqualAs(h, t, f, b) ==
    LET a == As(h, f, Reason, <<UserFrame>>, b)
    IN  IF a.res.k = "rec" THEN NewEqual(a.h, t, a.res, b) ELSE "panic"

\* C12 (foreign error interop): for a plain foreign error f whose text t is
\* not structured text, ParseError(f) and As(f, args...) are records of code
\* t, and New(t).Equal(f), New(t).Equal(ParseError(f)) and
\* New(t).Equal(As(f, "reason")) are true.
C12_ForeignInterop ==
    (last.op \in {"As", "ParseError"} /\ PlainUnstructured(last.base)) =>
        /\ last.res.k = "rec"
        /\ Code(heap, last.res.id) = Foreign[last.base.id].text
        /\ NewEqual(heap, Foreign[last.base.id].text, last.base, build) = "true"
        /\ NewEqual(heap, Foreign[last.base.id].text, last.res, build) = "true"
        /\ NewEqualAs(heap, Foreign[last.base.id].text, last.base, build) = "true"

\* C13 (ParseError identity): ParseError of a record returns that same
\* instance, makes no other, and leaves every record's data (code and trail)
\* as it was; ParseError(nil) returns nil.
C13_ParseErrorIdentity ==
    [][ last'.op = "ParseError" =>
            /\ last'.base.k = "rec" =>
                   /\ last'.res = last'.base
                   /\ heap' = heap
                   /\ Code(heap', last'.base.id) = Code(heap, last'.base.id)
                   /\ Trail(heap', last'.base.id) = Trail(heap, last'.base.id)
            /\ last'.base = NilErr => (last'.res = NilErr /\ heap' = heap) ]_vars

\* ParseError has been handed an annotated record and has returned it.
C13_Witness ==
    /\ last.op = "ParseError"
    /\ last.base.k = "rec"
    /\ heap.recs[last.base.id].len >= 3
    /\ last.res = last.base

\* The call-site descriptor of the last entry of the record i.
LastSite(h, i) == View(h, i)[h.recs[i].len].a[1]

\* C14 (the call-site descriptor is the direct caller): the entry that As,
\* Wrap or the method As has just added carries the descriptor of the user
\* frame that called the entry point, never one of a frame of the library.
C14_DirectCaller ==
    Annotated(last) => LastSite(heap, last.res.id) = Str(Txt(UserFrame))

\* ParseError(e).Code()
ResolvedCode(h, e, b) ==
    LET r == ParseError(h, e, <<UserFrame>>, b)
    IN  IF r.res.k = "rec" THEN Code(r.h, r.res.id) ELSE PanicCode

\* The answer of the first applicable step of the four.
EqualSteps(h, e1, e2, b) ==
    IF e1 = e2 THEN "true"
    ELSE IF e1 = NilErr \/ e2 = NilErr THEN "false"
    ELSE IF ErrorsIs(e1, e2) THEN "true"
    ELSE IF ResolvedCode(h, e1, b) = ResolvedCode(h, e2, b) THEN "true"
    ELSE "false"

\* C15 (Equal short-circuit order): Equal(e1, e2), Is(e1, e2) and e1.Equal(e2)
\* answer what the first applicable step answers: the same instance (both
\* nil included) is equal; exactly one nil is not equal; a chain match
\* errors.Is(e1, e2) is equal whatever the codes; otherwise the answer is
\* the equality of the codes of ParseError(e1) and ParseError(e2).
C15_EqualOrder ==
    \A e1 \in AllErrs : \A e2 \in AllErrs :
        /\ Equal(heap, e1, e2, <<UserFrame>>, build) = EqualSteps(heap, e1, e2, build)
        /\ Is(heap, e1, e2, <<UserFrame>>, build) = EqualSteps(heap, e1, e2, build)
        /\ e1.k = "rec" =>
               MethodEqual(heap, e1.id, e2, <<UserFrame>>, build) = EqualSteps(heap, e1, e2, build)

\* ErrNoData is the instance made at package initialisation.
ErrNoData == 1

\* The data ErrNoData was constructed with.
ErrNoDataView ==
    <<Str(Txt("data not found")), Arr(<<Str(Txt("errors.go:54#errors.init"))>>)>>

\* C16 (sentinel immutability): whatever calls have been made, ErrNoData has
\* the code "data not found" and its one-entry trail, and resolving any
\* operand against it, as Equal does, leaves them so.
C16_SentinelImmutable ==
    /\ heap.recs[ErrNoData].len = 2
    /\ View(heap, ErrNoData) = ErrNoDataView
    /\ Code(heap, ErrNoData) = Txt("data not found")
    /\ Len(Trail(heap, ErrNoData)) = 1
    /\ \A e \in AllErrs :
           View(ParseErrorData(heap, e, <<"errors.go:96#errors.equal">>, build).h, ErrNoData)
               = ErrNoDataView

\* ErrNoData has just been annotated for at least the second time.
C16_Witness ==
    /\ Annotated(last)
    /\ last.base = RecErr(ErrNoData)
    /\ \E i \in Recs :
        /\ i \notin {ErrNoData, last.res.id}
        /\ heap.recs[i].pure
        /\ heap.recs[i].len = 3
        /\ Code(heap, i) = Txt("data not found")

\* The text is the canonical form of the record i: a sequence whose first
\* element is the code and whose other elements are the trail's entries.
Canonical(h, i, text) ==
    /\ Unmarshal(text).ok
    /\ Unmarshal(text).v.k = "arr"
    /\ Len(Unmarshal(text).v.a) >= 1
    /\ Unmarshal(text).v.a[1] = Str(Code(h, i))
    /\ Tail(Unmarshal(text).v.a) = Trail(h, i)

\* C17 (Error-as-text): for every record Error() is a non-empty text; two
\* records of the same code and trail have the same text; the text is the
\* canonical form, the code first and then the entries of the trail in
\* order, unless a context value cannot be encoded, and then it is the
\* non-empty dump.
C17_ErrorText ==
    \A i \in Recs :
        /\ Len(Error(heap, i)) > 0
        /\ \A j \in Recs :
               (Code(heap, i) = Code(heap, j) /\ Trail(heap, i) = Trail(heap, j)) =>
                   Error(heap, i) = Error(heap, j)
        /\ IF Encodable(Arr(View(heap, i)))
           THEN Canonical(heap, i, Error(heap, i))
           ELSE Error(heap, i) = Dump(Arr(View(heap, i)))

\* Equal changes nothing and answers from its two operands alone.  The
\* operands are made by New, As and Parse: records of every code, with and
\* without entries, of foreign errors, and the records without a code.
EqualNext ==
    \/ DoNew
    \/ DoAs
    \/ DoParse

EqualSpec == Init /\ [][EqualNext]_vars

\* An order of the error values, to take each pair of them once.
Rank(e) == IF e.k = "nil" THEN 0 ELSE IF e.k = "rec" THEN e.id ELSE MaxRecs + e.id

====
